---- MODULE Spec2Model ----
(***************************************************************************)
(* A model of the Utf8::Utf8 codec of src/src/Utf8.cpp: the stateless      *)
(* Encode, the incremental Decode and the decode state kept in Utf8::Impl. *)
(***************************************************************************)
EXTENDS Integers, Sequences, FiniteSets, TLC

VARIABLES
    impl,        \* Utf8::Impl of the instance
    prev,        \* impl as it was when the last call started
    op,          \* the last call made on the instance: "new", "Encode", "Decode"
    stream,      \* the bytes the caller is going to feed to Decode
    pos,         \* how many bytes of stream were fed so far
    chunks,      \* the argument of every Decode call so far, in order
    returns,     \* the return value of every Decode call so far, in order
    codePoints,  \* the argument of the last Encode call
    encoding,    \* the return value of the last Encode call
    reencoding,  \* the return value of Encode applied to the decoded code points
    pc           \* position of the encode/decode/re-encode pipeline

vars == <<impl, prev, op, stream, pos, chunks, returns, codePoints, encoding, reencoding, pc>>

(***************************************************************************)
(* Machine arithmetic.                                                     *)
(***************************************************************************)

\* Width in bits of uint8_t.
OctetBits == 8

\* x << n on an unsigned value that has room for the result: the accumulator of
\* Decode holds at most 3 + 3 * 6 = 21 bits (AccumulatorFits), so the shift of
\* a UnicodeCodePoint never wraps.
Shl(x, n) == x * (2 ^ n)

Shr(x, n) == x \div (2 ^ n)

RECURSIVE BitAnd(_, _)
BitAnd(x, y) ==
    IF x = 0 \/ y = 0 THEN 0
    ELSE (IF x % 2 = 1 /\ y % 2 = 1 THEN 1 ELSE 0) + 2 * BitAnd(x \div 2, y \div 2)

\* The conversion done by vector<uint8_t>::push_back on a wider value.
ToOctet(x) == x % (2 ^ OctetBits)

(***************************************************************************)
(* Constants of the anonymous namespace.                                   *)
(***************************************************************************)

UTF8_ENCODED_REPLACEMENT_CHARACTER_Typo == <<239, 191, 191>>

UTF8_ENCODED_REPLACEMENT_CHARACTER == <<239, 191, 189>>

REPLACEMENT_CHARACTER == 65533

FIRST_SURROGATE == 55296

LAST_SURROGATE == 57343

LAST_LEGAL_UNICODE_CODE_POINT == 1114111

RECURSIVE log2n(_)
log2n(integer) ==
    IF integer > 0 THEN 1 + log2n(Shr(integer, 1)) ELSE 0

(***************************************************************************)
(* Utf8::Encode.                                                           *)
(***************************************************************************)

Encode1(codePoint) ==
    << ToOctet(BitAnd(codePoint, 127)) >>

Encode2_NoLeadTag(codePoint) ==
    << ToOctet(BitAnd(Shr(codePoint, 6), 31) + 128),
       ToOctet(BitAnd(codePoint, 63) + 128) >>

Encode2(codePoint) ==
    << ToOctet(BitAnd(Shr(codePoint, 6), 31) + 192),
       ToOctet(BitAnd(codePoint, 63) + 128) >>

Encode3(codePoint) ==
    << ToOctet(BitAnd(Shr(codePoint, 12), 15) + 224),
       ToOctet(BitAnd(Shr(codePoint, 6), 63) + 128),
       ToOctet(BitAnd(codePoint, 63) + 128) >>

Encode4(codePoint) ==
    << ToOctet(BitAnd(Shr(codePoint, 18), 7) + 240),
       ToOctet(BitAnd(Shr(codePoint, 12), 63) + 128),
       ToOctet(BitAnd(Shr(codePoint, 6), 63) + 128),
       ToOctet(BitAnd(codePoint, 63) + 128) >>

EncodeCodePoint_NoRangeCheck(codePoint) ==
    LET numBits == log2n(codePoint) IN
    IF numBits <= 7 THEN Encode1(codePoint)
    ELSE IF numBits <= 11 THEN Encode2(codePoint)
    ELSE IF numBits <= 16 THEN
        IF codePoint >= FIRST_SURROGATE /\ codePoint <= LAST_SURROGATE
        THEN UTF8_ENCODED_REPLACEMENT_CHARACTER
        ELSE Encode3(codePoint)
    ELSE IF numBits <= 21
        THEN Encode4(codePoint)
    ELSE UTF8_ENCODED_REPLACEMENT_CHARACTER

\* The body of the loop of Encode: the bytes appended for one code point.
EncodeCodePoint(codePoint) ==
    LET numBits == log2n(codePoint) IN
    IF numBits <= 7 THEN Encode1(codePoint)
    ELSE IF numBits <= 11 THEN Encode2(codePoint)
    ELSE IF numBits <= 16 THEN
        IF codePoint >= FIRST_SURROGATE /\ codePoint <= LAST_SURROGATE
        THEN UTF8_ENCODED_REPLACEMENT_CHARACTER
        ELSE Encode3(codePoint)
    ELSE IF numBits <= 21 /\ codePoint <= LAST_LEGAL_UNICODE_CODE_POINT
        THEN Encode4(codePoint)
    ELSE UTF8_ENCODED_REPLACEMENT_CHARACTER

RECURSIVE EncodeLoop(_, _)
EncodeLoop(encoding0, cps) ==
    IF cps = <<>> THEN encoding0
    ELSE EncodeLoop(encoding0 \o EncodeCodePoint(Head(cps)), Tail(cps))

Encode_ClearsImpl(i, cps) ==
    [impl |-> [currentCharacterBeingDecoded |-> 0, numBytesRemainingToDecode |-> 0],
     encoding |-> EncodeLoop(<<>>, cps)]

\* The method: the instance state it leaves and the vector it returns.
Encode(i, cps) ==
    [impl |-> i, encoding |-> EncodeLoop(<<>>, cps)]

(***************************************************************************)
(* Utf8::Impl and Utf8::Decode.                                            *)
(***************************************************************************)

NewImpl == [currentCharacterBeingDecoded |-> 0, numBytesRemainingToDecode |-> 0]

DecodeLead_NoFourByte(i, octet) ==
    IF BitAnd(octet, 128) = 0 THEN
        [impl |-> i, output |-> <<octet>>]
    ELSE IF BitAnd(octet, 224) = 192 THEN
        [impl |-> [numBytesRemainingToDecode |-> 1,
                   currentCharacterBeingDecoded |-> BitAnd(octet, 31)],
         output |-> <<>>]
    ELSE IF BitAnd(octet, 240) = 224 THEN
        [impl |-> [numBytesRemainingToDecode |-> 2,
                   currentCharacterBeingDecoded |-> BitAnd(octet, 15)],
         output |-> <<>>]
    ELSE
        [impl |-> i, output |-> <<REPLACEMENT_CHARACTER>>]

DecodeLead_SkipsInvalid(i, octet) ==
    IF BitAnd(octet, 128) = 0 THEN
        [impl |-> i, output |-> <<octet>>]
    ELSE IF BitAnd(octet, 224) = 192 THEN
        [impl |-> [numBytesRemainingToDecode |-> 1,
                   currentCharacterBeingDecoded |-> BitAnd(octet, 31)],
         output |-> <<>>]
    ELSE IF BitAnd(octet, 240) = 224 THEN
        [impl |-> [numBytesRemainingToDecode |-> 2,
                   currentCharacterBeingDecoded |-> BitAnd(octet, 15)],
         output |-> <<>>]
    ELSE IF BitAnd(octet, 248) = 240 THEN
        [impl |-> [numBytesRemainingToDecode |-> 3,
                   currentCharacterBeingDecoded |-> BitAnd(octet, 7)],
         output |-> <<>>]
    ELSE
        [impl |-> i, output |-> <<>>]

\* The branch taken when numBytesRemainingToDecode = 0.
DecodeLead(i, octet) ==
    IF BitAnd(octet, 128) = 0 THEN
        [impl |-> i, output |-> <<octet>>]
    ELSE IF BitAnd(octet, 224) = 192 THEN
        [impl |-> [numBytesRemainingToDecode |-> 1,
                   currentCharacterBeingDecoded |-> BitAnd(octet, 31)],
         output |-> <<>>]
    ELSE IF BitAnd(octet, 240) = 224 THEN
        [impl |-> [numBytesRemainingToDecode |-> 2,
                   currentCharacterBeingDecoded |-> BitAnd(octet, 15)],
         output |-> <<>>]
    ELSE IF BitAnd(octet, 248) = 240 THEN
        [impl |-> [numBytesRemainingToDecode |-> 3,
                   currentCharacterBeingDecoded |-> BitAnd(octet, 7)],
         output |-> <<>>]
    ELSE
        [impl |-> i, output |-> <<REPLACEMENT_CHARACTER>>]

DecodeContinuation_RejectsMalformed(i, octet) ==
    LET current == Shl(i.currentCharacterBeingDecoded, 6) + BitAnd(octet, 63)
        remaining == i.numBytesRemainingToDecode - 1
    IN  IF BitAnd(octet, 192) # 128 THEN
            [impl |-> NewImpl, output |-> <<REPLACEMENT_CHARACTER>>]
        ELSE IF remaining = 0 THEN
            [impl |-> [numBytesRemainingToDecode |-> 0, currentCharacterBeingDecoded |-> 0],
             output |-> << current >>]
        ELSE
            [impl |-> [numBytesRemainingToDecode |-> remaining,
                       currentCharacterBeingDecoded |-> current],
             output |-> <<>>]

DecodeContinuation_Validates(i, octet) ==
    LET current == Shl(i.currentCharacterBeingDecoded, 6) + BitAnd(octet, 63)
        remaining == i.numBytesRemainingToDecode - 1
    IN  IF remaining = 0 THEN
            [impl |-> [numBytesRemainingToDecode |-> 0, currentCharacterBeingDecoded |-> 0],
             output |-> IF \/ (current >= FIRST_SURROGATE /\ current <= LAST_SURROGATE)
                           \/ current > LAST_LEGAL_UNICODE_CODE_POINT
                        THEN <<REPLACEMENT_CHARACTER>> ELSE <<current>>]
        ELSE
            [impl |-> [numBytesRemainingToDecode |-> remaining,
                       currentCharacterBeingDecoded |-> current],
             output |-> <<>>]

DecodeContinuation_NoReset(i, octet) ==
    LET current == Shl(i.currentCharacterBeingDecoded, 6) + BitAnd(octet, 63)
        remaining == i.numBytesRemainingToDecode - 1
    IN  [impl |-> [numBytesRemainingToDecode |-> remaining,
                   currentCharacterBeingDecoded |-> current],
         output |-> IF remaining = 0 THEN <<current>> ELSE <<>>]

\* The branch taken when numBytesRemainingToDecode # 0.
DecodeContinuation(i, octet) ==
    LET current == Shl(i.currentCharacterBeingDecoded, 6) + BitAnd(octet, 63)
        remaining == i.numBytesRemainingToDecode - 1
    IN  IF remaining = 0 THEN
            [impl |-> [numBytesRemainingToDecode |-> 0, currentCharacterBeingDecoded |-> 0],
             output |-> <<current>>]
        ELSE
            [impl |-> [numBytesRemainingToDecode |-> remaining,
                       currentCharacterBeingDecoded |-> current],
             output |-> <<>>]

\* The body of the loop of Decode: the state left and the code points appended
\* for one octet.
DecodeOctet(i, octet) ==
    IF i.numBytesRemainingToDecode = 0
    THEN DecodeLead(i, octet)
    ELSE DecodeContinuation(i, octet)

RECURSIVE DecodeLoop(_, _, _)
DecodeLoop(i, output, octets) ==
    IF octets = <<>> THEN [impl |-> i, output |-> output]
    ELSE LET r == DecodeOctet(i, Head(octets))
         IN  DecodeLoop(r.impl, output \o r.output, Tail(octets))

Decode_LocalState(i, octets) ==
    [impl |-> NewImpl, output |-> DecodeLoop(NewImpl, <<>>, octets).output]

\* The method: the instance state it leaves and the vector it returns.
Decode(i, octets) ==
    DecodeLoop(i, <<>>, octets)

(***************************************************************************)
(* Bounds and inputs.                                                      *)
(***************************************************************************)

\* Longest code point sequence built freely from CoreCodePoints.
MaxLen == 3

\* Longest byte stream built freely from CoreOctets.
MaxFed == 4

SeqsUpTo(S, n) == UNION { [1..k -> S] : k \in 0..n }

\* One code point of every branch of Encode: 1, 2, 3 and 4 bytes, a surrogate,
\* and a value past the last legal code point.
CoreCodePoints == {65, 913, 26085, 55296, 144308, 1114112}

\* Single code points: around every boundary of Encode, and every power of two
\* up to 2^30 with its neighbours, and 2^31 - 1, the largest integer of the
\* model checker (larger values of the type take the same branch of Encode).
SingleCodePoints ==
    (0..300) \cup (1900..2200) \cup (55200..57400) \cup (65400..65700)
    \cup (1114000..1114200)
    \cup UNION { {2 ^ k - 1, 2 ^ k, 2 ^ k + 1} : k \in 1..30 }
    \cup {(2 ^ 30 - 1) + 2 ^ 30}

\* The inputs of the unit tests.
TestCodePoints ==
    { <<72, 101, 108, 108, 111>>,
      <<65, 8802, 913, 46>>,
      <<26085, 26412, 35486>>,
      <<144308>> }

EncodeInputs ==
    SeqsUpTo(CoreCodePoints, MaxLen)
    \cup { <<c>> : c \in SingleCodePoints }
    \cup TestCodePoints

\* Octets the free streams are built from: ASCII, a continuation byte, the lead
\* of a 3 and of a 4 byte sequence.  (The lead of a 2 byte sequence and the
\* invalid leads come with OtherStreams.)
CoreOctets == {65, 151, 230, 244}

Octets == 0..(2 ^ OctetBits - 1)

OtherStreams ==
    { <<b>> : b \in Octets }
    \cup { <<lead, b>> : lead \in {206, 230, 244, 248}, b \in Octets }
    \cup { <<230, 151, 165>>, <<230, 65, 65>>, <<248, 128>>, <<206, 145, 255, 65>>,
           <<237, 160, 128>>, <<237, 191, 191>>, <<239, 191, 189>>,
           <<244, 144, 128, 128>>, <<247, 191, 191, 191>>, <<240, 163, 142, 180>>,
           <<244, 143, 191, 191>> }

Streams == SeqsUpTo(CoreOctets, MaxFed) \cup OtherStreams

\* What a caller encodes between two Decode calls of a stream.
InterleavedEncodeInputs == { <<55296, 26085>> }

(***************************************************************************)
(* One codec instance fed a byte stream in chunks, with Encode calls in    *)
(* between.                                                                *)
(***************************************************************************)

Init ==
    /\ impl = NewImpl
    /\ prev = NewImpl
    /\ op = "new"
    /\ stream \in Streams
    /\ pos = 0
    /\ chunks = <<>>
    /\ returns = <<>>
    /\ codePoints = <<>>
    /\ encoding = <<>>
    /\ reencoding = <<>>
    /\ pc = "stream"

DecodeCall ==
    /\ pc = "stream"
    /\ \E n \in 1..(Len(stream) - pos) :
        LET octets == SubSeq(stream, pos + 1, pos + n)
            r == Decode(impl, octets)
        IN  /\ impl' = r.impl
            /\ prev' = impl
            /\ op' = "Decode"
            /\ pos' = pos + n
            /\ chunks' = Append(chunks, octets)
            /\ returns' = Append(returns, r.output)
    /\ UNCHANGED <<stream, codePoints, encoding, reencoding, pc>>

EncodeCall ==
    /\ pc = "stream"
    /\ \E cps \in InterleavedEncodeInputs :
        LET r == Encode(impl, cps)
        IN  /\ impl' = r.impl
            /\ prev' = impl
            /\ op' = "Encode"
            /\ codePoints' = cps
            /\ encoding' = r.encoding
    /\ UNCHANGED <<stream, pos, chunks, returns, reencoding, pc>>

Next == DecodeCall \/ EncodeCall

Spec == Init /\ [][Next]_vars

(***************************************************************************)
(* Encode, then Decode of the result on a new instance, then Encode of the *)
(* decoded code points.                                                    *)
(***************************************************************************)

InitPipeline ==
    /\ impl = NewImpl
    /\ prev = NewImpl
    /\ op = "new"
    /\ stream = <<>>
    /\ pos = 0
    /\ chunks = <<>>
    /\ returns = <<>>
    /\ codePoints \in EncodeInputs
    /\ encoding = <<>>
    /\ reencoding = <<>>
    /\ pc = "start"

EncodeStep ==
    /\ pc = "start"
    /\ LET r == Encode(impl, codePoints)
       IN  /\ impl' = r.impl
           /\ encoding' = r.encoding
    /\ prev' = impl
    /\ op' = "Encode"
    /\ pc' = "encoded"
    /\ UNCHANGED <<stream, pos, chunks, returns, codePoints, reencoding>>

DecodeStep ==
    /\ pc = "encoded"
    /\ LET r == Decode(NewImpl, encoding)
       IN  /\ impl' = r.impl
           /\ chunks' = <<encoding>>
           /\ returns' = <<r.output>>
    /\ prev' = NewImpl
    /\ op' = "Decode"
    /\ stream' = encoding
    /\ pos' = Len(encoding)
    /\ pc' = "decoded"
    /\ UNCHANGED <<codePoints, encoding, reencoding>>

ReEncodeStep ==
    /\ pc = "decoded"
    /\ LET r == Encode(impl, returns[1])
       IN  /\ impl' = r.impl
           /\ reencoding' = r.encoding
    /\ prev' = impl
    /\ op' = "Encode"
    /\ pc' = "reencoded"
    /\ UNCHANGED <<stream, pos, chunks, returns, codePoints, encoding>>

NextPipeline == EncodeStep \/ DecodeStep \/ ReEncodeStep

SpecPipeline == InitPipeline /\ [][NextPipeline]_vars

(***************************************************************************)
(* Vocabulary of the properties.                                           *)
(***************************************************************************)

RECURSIVE Flatten(_)
Flatten(seqs) ==
    IF seqs = <<>> THEN <<>> ELSE Head(seqs) \o Flatten(Tail(seqs))

IsSurrogate(c) == c >= 55296 /\ c <= 57343

IsValidCodePoint(c) == c >= 0 /\ c <= 1114111 /\ ~IsSurrogate(c)

AllValid(cps) == \A k \in 1..Len(cps) : IsValidCodePoint(cps[k])

IsContinuationOctet(b) == b \in 0..255 /\ b \div 64 = 2

\* bs is the RFC 3629 encoding of the valid code point c.
IsRfc3629(c, bs) ==
    IF c <= 127 THEN
        /\ Len(bs) = 1
        /\ bs[1] \in 0..255 /\ bs[1] \div 128 = 0
        /\ bs[1] % 128 = c
    ELSE IF c <= 2047 THEN
        /\ Len(bs) = 2
        /\ bs[1] \in 0..255 /\ bs[1] \div 32 = 6
        /\ IsContinuationOctet(bs[2])
        /\ (bs[1] % 32) * 64 + (bs[2] % 64) = c
    ELSE IF c <= 65535 THEN
        /\ Len(bs) = 3
        /\ bs[1] \in 0..255 /\ bs[1] \div 16 = 14
        /\ IsContinuationOctet(bs[2]) /\ IsContinuationOctet(bs[3])
        /\ (bs[1] % 16) * 4096 + (bs[2] % 64) * 64 + (bs[3] % 64) = c
    ELSE
        /\ Len(bs) = 4
        /\ bs[1] \in 0..255 /\ bs[1] \div 8 = 30
        /\ IsContinuationOctet(bs[2]) /\ IsContinuationOctet(bs[3])
        /\ IsContinuationOctet(bs[4])
        /\ (bs[1] % 8) * 262144 + (bs[2] % 64) * 4096 + (bs[3] % 64) * 64 + (bs[4] % 64) = c

Rfc3629Len(c) == IF c <= 127 THEN 1 ELSE IF c <= 2047 THEN 2 ELSE IF c <= 65535 THEN 3 ELSE 4

\* bs is, group after group and with nothing in between, the RFC 3629 encoding
\* of each valid code point of cps and EF BF BD for each invalid one.
RECURSIVE IsSubstitutingEncoding(_, _)
IsSubstitutingEncoding(cps, bs) ==
    IF cps = <<>> THEN bs = <<>>
    ELSE LET c == Head(cps)
             n == IF IsValidCodePoint(c) THEN Rfc3629Len(c) ELSE 3
         IN  /\ Len(bs) >= n
             /\ IF IsValidCodePoint(c)
                THEN IsRfc3629(c, SubSeq(bs, 1, n))
                ELSE SubSeq(bs, 1, n) = <<239, 191, 189>>
             /\ IsSubstitutingEncoding(Tail(cps), SubSeq(bs, n + 1, Len(bs)))

LastChunk == chunks[Len(chunks)]

LastReturn == returns[Len(returns)]

\* The returns and the final state of Decode called on each chunk in turn,
\* starting from state i, with no other call in between.
RECURSIVE ChunkedDecode(_, _)
ChunkedDecode(i, cs) ==
    IF cs = <<>> THEN [impl |-> i, returns |-> <<>>]
    ELSE LET r == Decode(i, Head(cs))
             rest == ChunkedDecode(r.impl, Tail(cs))
         IN  [impl |-> rest.impl, returns |-> <<r.output>> \o rest.returns]

\* The accumulator never needs more than 21 bits.
AccumulatorFits == impl.currentCharacterBeingDecoded < 2 ^ 21

(***************************************************************************)
(* Properties.                                                             *)
(***************************************************************************)

\* C1: Decode, on a new instance, of the bytes Encode returned for a sequence
\* of valid code points returns that sequence.
RoundTrip ==
    (pc \in {"decoded", "reencoded"} /\ AllValid(codePoints))
        => (chunks = <<encoding>> /\ returns = <<codePoints>>)

RoundTripWitness ==
    /\ pc = "decoded"
    /\ codePoints = <<65, 913, 144308>>
    /\ returns = <<codePoints>>

\* C2: the returns of Decode on the consecutive chunks of a byte stream,
\* concatenated, are what one Decode of all the bytes fed returns on a new
\* instance, and both leave the same pending state; E6, 97, A5 fed in three
\* calls returns [], [], [0x65E5].
ChunkInvariance ==
    LET fed == SubSeq(stream, 1, pos)
        whole == Decode(NewImpl, fed)
    IN  pc = "stream" =>
            /\ Flatten(chunks) = fed
            /\ \A k \in 1..Len(chunks) : chunks[k] # <<>>
            /\ Len(returns) = Len(chunks)
            /\ Flatten(returns) = whole.output
            /\ impl = whole.impl
            /\ (chunks = << <<230>>, <<151>>, <<165>> >>
                    => returns = << <<>>, <<>>, <<26085>> >>)

ChunkInvarianceWitness ==
    /\ chunks = << <<230>>, <<151>>, <<165>> >>
    /\ returns = << <<>>, <<>>, <<26085>> >>

\* C3: Encode of one valid code point is its RFC 3629 encoding (1, 2, 3 or 4
\* bytes by range, the payload bits being those of the code point), and Encode
\* of a sequence is the concatenation of the encodings of its code points.
EncodesPerRfc3629 ==
    pc # "start" =>
        /\ (Len(codePoints) = 1 /\ IsValidCodePoint(codePoints[1]))
                => /\ IsRfc3629(codePoints[1], encoding)
                   /\ Len(encoding) = Rfc3629Len(codePoints[1])
        /\ encoding = Flatten([k \in 1..Len(codePoints) |->
                                  Encode(NewImpl, <<codePoints[k]>>).encoding])
        /\ (codePoints = <<72, 101, 108, 108, 111>> => encoding = <<72, 101, 108, 108, 111>>)
        /\ (codePoints = <<65, 8802, 913, 46>> => encoding = <<65, 226, 137, 162, 206, 145, 46>>)
        /\ (codePoints = <<26085, 26412, 35486>>
                => encoding = <<230, 151, 165, 230, 156, 172, 232, 170, 158>>)
        /\ (codePoints = <<144308>> => encoding = <<240, 163, 142, 180>>)

EncodesPerRfc3629Witness ==
    /\ pc = "encoded"
    /\ codePoints = <<65, 8802, 913, 46>>
    /\ encoding = <<65, 226, 137, 162, 206, 145, 46>>

\* C4: Encode always returns, and every code point that is a surrogate or
\* greater than 0x10FFFF contributes exactly EF BF BD at its position while the
\* code points around it are encoded normally.
SubstitutesInvalid ==
    pc # "start" => IsSubstitutingEncoding(codePoints, encoding)

SubstitutesInvalidWitness ==
    /\ pc = "encoded"
    /\ codePoints = <<65, 1114112, 144308>>
    /\ encoding = <<65, 239, 191, 189, 240, 163, 142, 180>>

\* C5: Encode([0xFFFD]) is EF BF BD; what Encode substituted decodes to U+FFFD;
\* and Encode(Decode(Encode(S))) = Encode(S) for every S.
IdempotentSubstitution ==
    /\ (pc # "start" /\ codePoints = <<65533>>) => encoding = <<239, 191, 189>>
    /\ pc \in {"decoded", "reencoded"} =>
            /\ Len(returns[1]) = Len(codePoints)
            /\ \A k \in 1..Len(codePoints) :
                    ~IsValidCodePoint(codePoints[k]) => returns[1][k] = 65533
    /\ pc = "reencoded" => reencoding = encoding

IdempotentSubstitutionWitness ==
    /\ pc = "reencoded"
    /\ codePoints = <<55296, 65, 1114112>>
    /\ returns = << <<65533, 65, 65533>> >>
    /\ reencoding = <<239, 191, 189, 65, 239, 191, 189>>
    /\ reencoding = encoding

\* C6: a call of Encode, in any codec state, leaves the pending decode state
\* as it was and returns what it returns on an idle codec; the Decode returns
\* of a chunked stream are those of the same chunks with no Encode in between.
EncodeLeavesDecodeState ==
    pc = "stream" =>
        /\ op = "Encode" =>
                /\ impl = prev
                /\ encoding = Encode(NewImpl, codePoints).encoding
        /\ returns = ChunkedDecode(NewImpl, chunks).returns

EncodeLeavesDecodeStateWitness ==
    /\ pc = "stream"
    /\ op = "Encode"
    /\ chunks = << <<230>> >>
    /\ impl.numBytesRemainingToDecode = 2
    /\ impl = prev
    /\ encoding = <<239, 191, 189, 230, 151, 165>>

\* C7: in the idle state a byte that is none of 0xxxxxxx, 110xxxxx, 1110xxxx,
\* 11110xxx (0x80..0xBF, 0xF8..0xFF) makes Decode return exactly [0xFFFD] and
\* leaves the codec idle, its pending state unchanged; F8 80 returns two
\* replacement characters.
InvalidLeadReplaced ==
    pc = "stream" =>
        /\ (op = "Decode" /\ Len(LastChunk) = 1 /\ prev.numBytesRemainingToDecode = 0) =>
                LET b == LastChunk[1]
                    lead == b \div 128 = 0 \/ b \div 32 = 6 \/ b \div 16 = 14 \/ b \div 8 = 30
                IN  /\ ~lead <=> b \in (128..191) \cup (248..255)
                    /\ ~lead => /\ LastReturn = <<65533>>
                                /\ impl = prev
                                /\ impl.numBytesRemainingToDecode = 0
        /\ (chunks = << <<248, 128>> >> => returns = << <<65533, 65533>> >>)

InvalidLeadReplacedWitness ==
    /\ chunks = << <<248>>, <<128>> >>
    /\ returns = << <<65533>>, <<65533>> >>

PendingStateInvariant ==
    pc = "stream" =>
        /\ impl.numBytesRemainingToDecode \in 0..3
        /\ op = "new" => impl = NewImpl
        /\ impl.numBytesRemainingToDecode = 0 => impl.currentCharacterBeingDecoded = 0
        /\ op = "Decode" =>
                /\ prev = ChunkedDecode(NewImpl, SubSeq(chunks, 1, Len(chunks) - 1)).impl
                /\ impl = Decode(prev, LastChunk).impl

PendingStateInvariantWitness ==
    /\ chunks = << <<230, 151>>, <<165>> >>
    /\ prev = [currentCharacterBeingDecoded |-> 407, numBytesRemainingToDecode |-> 1]
    /\ impl = NewImpl
    /\ op = "Decode"

====
